---- MODULE Spec2Model ----
(***************************************************************************)
(* A model of gsheets/mixins.py: BaseGoogleSheetMixin (the lazily fetched  *)
(* snapshot of a sheet, column lookup, row lookup) and SheetPushableMixin  *)
(* (upsert_data, upsert_table, writeout), together with the remote sheet   *)
(* they read and write through the Sheets API.                             *)
(*                                                                         *)
(* Python values: None is <<>> and a value v that may be None is <<v>>.    *)
(* Python lists are sequences; list indexes stay 0-based as in the source, *)
(* so list element k is seq[k + 1]. The strings the code formats and       *)
(* parses (sheet names, ranges) are sequences of one-character strings;    *)
(* field names, cell values and identifiers, which it only compares, are   *)
(* strings.                                                                *)
(***************************************************************************)
EXTENDS Integers, Sequences, FiniteSets, TLC

\* ------------------------------------------------------------- bounds
\* records a queryset yields at most
MaxRecords == 5
\* batch_size ranges over 1..MaxBatch
MaxBatch == 2
\* the first row of data_range ranges over 1..MaxRowsStart
MaxRowsStart == 2
\* calls made on the object besides upsert_table, per session
MaxCalls == 2
\* rows of the remote sheet's grid
SheetRows == 14
\* upsert_data is applied to a cache of fewer than MaxCached rows
MaxCached == 4

\* ------------------------------------------------- class attributes
sheet_name == << "S", "h", "e", "e", "t", "1" >>
model_id_field == "id"
sheet_id_field == "Django GUID"
max_rows == 30000
max_col == << "Z" >>

\* ------------------------------------------------------ Python values
None == <<>>
Some(v) == <<v>>
Value(o) == o[1]
NoExc == "-"

Min(a, b) == IF a <= b THEN a ELSE b
Max(a, b) == IF a >= b THEN a ELSE b

\* list[a:b] for 0 <= a, 0 <= b
Slice(list, a, b) == SubSeq(list, a + 1, Min(b, Len(list)))
\* list[a:]
SliceFrom(list, a) == SubSeq(list, a + 1, Len(list))
\* list.index(x), 0-based; -1 stands for the ValueError of an absent x
ListIndex(list, x) ==
    IF \E k \in 1..Len(list) : list[k] = x
    THEN (CHOOSE k \in 1..Len(list) :
              list[k] = x /\ \A j \in 1..(k - 1) : list[j] # x) - 1
    ELSE -1

\* a dict as the sequence of its (key, value) pairs, in insertion order
Keys(data) == {data[k][1] : k \in 1..Len(data)}
Item(data, key) == data[CHOOSE k \in 1..Len(data) : data[k][1] = key][2]

\* ---------------------------------------------------- the environment
\* the model instances the queryset can yield
Objects ==
    { [id |-> "id-1", Name |-> "Alicia", Age |-> "30"],
      [id |-> "id-2", Name |-> "Bob", Age |-> "41"],
      [id |-> "id-3", Name |-> "Cy", Age |-> "25"] }

\* what get_push_fields can return
PushFieldLists ==
    { <<"id", "Name">>, <<"Name", "Age", "id">>, <<"id", "Age">>, <<"Name">> }

\* what the configured range of the remote sheet can hold when the session
\* starts: the header row and the data rows below it. The API leaves out
\* trailing empty cells, so a row may be shorter than the header.
Sheets ==
    { <<>>,
      << <<"Name", "Django GUID">> >>,
      << <<"Name", "Django GUID">>, <<"Alice", "id-1">> >>,
      << <<"Name", "Django GUID">>, <<"Alice">>, <<"Bob", "id-2">> >>,
      << <<"Django GUID", "Name">>, <<"id-1", "Alice">> >>,
      << <<"Name">>, <<"Alice">> >>,
      << <<"Age", "Django GUID", "Name">>, <<"24", "id-3", "Cyd">> >> }

VARIABLES
    remote,          \* the remote sheet: row number -> cells from column A
    data_range,      \* the configured range, 'A1:Z'
    batch_size,
    push_fields,     \* get_push_fields()
    _sheet_data,     \* None or the cached data rows
    _sheet_headers,  \* None or the cached header row
    pc,              \* "idle", or where upsert_table is: "loop", "done", "raised"
    i,               \* upsert_table: the index of the next record
    last_writeout,   \* upsert_table
    touched,         \* the cache indexes upsert_table has upserted in this run
    writes,          \* the batchUpdate requests issued, in order
    reads,           \* the values.get requests answered
    calls,           \* calls made besides upsert_table
    ret              \* the last call: its name, argument, exception and value

vars == << remote, data_range, batch_size, push_fields, _sheet_data,
           _sheet_headers, pc, i, last_writeout, touched, writes, reads,
           calls, ret >>

\* ------------------------------------------------------------ strings
\* the regex classes [A-Z] and \d
Upper == { "A", "B", "C", "D", "E", "F", "G", "H", "I", "J", "K", "L", "M",
           "N", "O", "P", "Q", "R", "S", "T", "U", "V", "W", "X", "Y", "Z" }
Digits == << "0", "1", "2", "3", "4", "5", "6", "7", "8", "9" >>
Digit == { Digits[k] : k \in 1..10 }

\* int(s) of a string of digits
RECURSIVE int(_)
int(s) ==
    IF s = <<>> THEN 0
    ELSE 10 * int(SubSeq(s, 1, Len(s) - 1)) + ListIndex(Digits, s[Len(s)])

\* f'{n}' of an int n >= 0
RECURSIVE str(_)
str(n) ==
    IF n < 10 THEN << Digits[n + 1] >>
    ELSE str(n \div 10) \o << Digits[(n % 10) + 1] >>

\* the position after the longest run of characters of class from position k
\* of s on: what a greedy class* consumes
RECURSIVE After(_, _, _)
After(s, k, class) ==
    IF k <= Len(s) /\ s[k] \in class THEN After(s, k + 1, class) ELSE k

\* A match of [A-Z]+(\d+):[A-Z]+(\d*) that starts at position k of s: its two
\* groups, or None. Letters, digits and ':' exclude each other, so the match
\* at k, if there is one, is the one the greedy quantifiers find first: the
\* letters end at p1, the digits at p2, the letters after the ':' at p3.
RowEnd(s, p1, p2, p3) ==
    IF p3 > p2 + 1
    THEN Some(<< SubSeq(s, p1, p2 - 1), SubSeq(s, p3, After(s, p3, Digit) - 1) >>)
    ELSE None

RowColon(s, k, p1, p2) ==
    IF p1 > k /\ p2 > p1 /\ p2 <= Len(s) /\ s[p2] = ":"
    THEN RowEnd(s, p1, p2, After(s, p2 + 1, Upper))
    ELSE None

RowDigits(s, k, p1) == RowColon(s, k, p1, After(s, p1, Digit))

RowMatchAt(s, k) == RowDigits(s, k, After(s, k, Upper))

\* A match of ([A-Z]+)\d*:([A-Z]+)\d* that starts at position k of s
ColEnd(s, k, p1, p2, p3) ==
    IF p3 > p2 + 1
    THEN Some(<< SubSeq(s, k, p1 - 1), SubSeq(s, p2 + 1, p3 - 1) >>)
    ELSE None

ColColon(s, k, p1, p2) ==
    IF p1 > k /\ p2 <= Len(s) /\ s[p2] = ":"
    THEN ColEnd(s, k, p1, p2, After(s, p2 + 1, Upper))
    ELSE None

ColDigits(s, k, p1) == ColColon(s, k, p1, After(s, p1, Digit))

ColMatchAt(s, k) == ColDigits(s, k, After(s, k, Upper))

\* re.search: the match at the leftmost position from k on that has one
RECURSIVE RowSearch(_, _)
RowSearch(s, k) ==
    IF k > Len(s) THEN None
    ELSE IF RowMatchAt(s, k) # None THEN RowMatchAt(s, k)
    ELSE RowSearch(s, k + 1)

RECURSIVE ColSearch(_, _)
ColSearch(s, k) ==
    IF k > Len(s) THEN None
    ELSE IF ColMatchAt(s, k) # None THEN ColMatchAt(s, k)
    ELSE ColSearch(s, k + 1)

\* ------------------------------------------------------ range helpers
\* '!'.join([sheet_name, data_range])
get_sheet_range(name, range) == name \o << "!" >> \o range

sheet_range == get_sheet_range(sheet_name, data_range)

\* lines 92-101 on row_match; groups() of no match is an AttributeError
RowsOf(row_match) ==
    IF row_match = None THEN [exc |-> "AttributeError", val |-> None]
    ELSE [exc |-> NoExc,
          val |-> Some(<< int(Value(row_match)[1]),
                          IF Value(row_match)[2] = <<>> THEN max_rows
                          ELSE int(Value(row_match)[2]) >>)]

\* sheet_range_rows of an object whose sheet_range is range
RangeRows(range) == RowsOf(RowSearch(range, 1))

sheet_range_rows == Value(RangeRows(sheet_range).val)

\* lines 108-114 on col_match
ColsOf(col_match) ==
    IF col_match = None THEN [exc |-> "AttributeError", val |-> None]
    ELSE [exc |-> NoExc, val |-> Some(<< Value(col_match)[1], Value(col_match)[2] >>)]

\* sheet_range_cols of an object whose sheet_range is range
RangeCols(range) == ColsOf(ColSearch(range, 1))

sheet_range_cols == Value(RangeCols(sheet_range).val)

\* --------------------------------------------------------- the API
\* The API's reading of a range in A1 notation, 'Sheet1!A2:Z30000': the part
\* after the last '!' is the cells, whose first row follows the first column
\* letters and whose last row follows the second; a range that names no last
\* row runs to the end of the grid.
A1Cells(range) ==
    SubSeq(range,
           1 + (CHOOSE k \in 1..Len(range) :
                    range[k] = "!" /\ \A j \in (k + 1)..Len(range) : range[j] # "!"),
           Len(range))

A1Digits(cells, p1) == SubSeq(cells, p1, After(cells, p1, Digit) - 1)
A1FirstRow(cells) == int(A1Digits(cells, After(cells, 1, Upper)))
A1Colon(cells) == CHOOSE k \in 1..Len(cells) : cells[k] = ":"
A1LastDigits(cells) == A1Digits(cells, After(cells, A1Colon(cells) + 1, Upper))
A1LastRow(cells) ==
    IF A1LastDigits(cells) = <<>> THEN SheetRows ELSE int(A1LastDigits(cells))

FirstRow(range) == A1FirstRow(A1Cells(range))
LastRow(range) == A1LastRow(A1Cells(range))

\* spreadsheets().values().get(range): the rows of the range down to the
\* last row that holds a value
RowsDownTo(sheet, first, last) == [k \in 1..(last - first + 1) |-> sheet[first + k - 1]]

LastUsed(sheet, first, last) ==
    IF \E r \in first..last : sheet[r] # <<>>
    THEN CHOOSE r \in first..last :
             sheet[r] # <<>> /\ \A q \in (r + 1)..last : sheet[q] = <<>>
    ELSE first - 1

ValuesFrom(sheet, first, last) == RowsDownTo(sheet, first, LastUsed(sheet, first, last))

ApiGetValues ==
    ValuesFrom(remote, FirstRow(sheet_range), Min(LastRow(sheet_range), SheetRows))

\* one row of a RAW update: the given cells replace the row's first cells
ApiWriteRow(old, new) == new \o SubSeq(old, Len(new) + 1, Len(old))

\* spreadsheets().values().batchUpdate: values[k] goes to row r0 + k of the
\* range; a request whose values do not fit the range or the grid is refused

ApiFits(range, values) ==
    FirstRow(range) + Len(values) - 1 <= Min(LastRow(range), SheetRows)

WriteRowsFrom(sheet, first, values) ==
    [r \in 1..SheetRows |->
        IF r >= first /\ r < first + Len(values)
        THEN ApiWriteRow(sheet[r], values[r - first + 1])
        ELSE sheet[r]]

ApiBatchUpdate(sheet, range, values) == WriteRowsFrom(sheet, FirstRow(range), values)

\* ------------------------------------------------ BaseGoogleSheetMixin
\* The object's fields as a record self = [d |-> _sheet_data,
\* h |-> _sheet_headers, reads |-> reads]; a call gives
\* [self |-> the fields after it, exc |-> its exception, val |-> its value].
\* apiOK says whether a request made during the call is answered.
Self == [d |-> _sheet_data, h |-> _sheet_headers, reads |-> reads]

Result(self, exc, val) == [self |-> self, exc |-> exc, val |-> val]

\* lines 68-73, values being api_res.get('values', [])
Fetched(self, values) ==
    IF values = <<>>
    THEN Result([self EXCEPT !.d = Some(<<>>)], "IndexError", None)
    ELSE Result([self EXCEPT !.d = Some(Tail(values)), !.h = Some(Head(values))],
                NoExc, Some(Tail(values)))

\* a sheet_data that fetches on every access
sheet_data_uncached(self, apiOK) ==
    IF ~apiOK THEN Result(self, "HttpError", None)
    ELSE Fetched([self EXCEPT !.reads = @ + 1], ApiGetValues)

sheet_data(self, apiOK) ==
    IF self.d # None THEN Result(self, NoExc, self.d)
    ELSE IF ~apiOK THEN Result(self, "HttpError", None)
    ELSE Fetched([self EXCEPT !.reads = @ + 1], ApiGetValues)

\* Python's "not x" for x None or a list
Falsy(x) == x = None \/ Value(x) = <<>>

\* line 81 after the noop of line 79
HeadersAfter(noop) ==
    IF noop.exc # NoExc THEN Result(noop.self, noop.exc, None)
    ELSE Result(noop.self, NoExc, noop.self.h)

sheet_headers(self, apiOK) ==
    IF Falsy(self.h) THEN HeadersAfter(sheet_data(self, apiOK))
    ELSE Result(self, NoExc, self.h)

\* line 129 on the value hd of self.sheet_headers
IndexIn(hd, field_name) ==
    IF hd.exc # NoExc THEN Result(hd.self, hd.exc, None)
    ELSE IF hd.val = None THEN Result(hd.self, "AttributeError", None)
    ELSE IF ListIndex(Value(hd.val), field_name) < 0
         THEN Result(hd.self, "ValueError", None)
    ELSE Result(hd.self, NoExc, Some(ListIndex(Value(hd.val), field_name)))

column_index(self, field_name, apiOK) ==
    IndexIn(sheet_headers(self, apiOK), field_name)

\* the loop of existing_row over rows k.. of the cache: the 0-based index of
\* the first row whose cell sheet_id_ix is model_id
RECURSIVE ScanRows(_, _, _, _)
ScanRows(rows, k, sheet_id_ix, model_id) ==
    IF k > Len(rows) THEN [exc |-> NoExc, val |-> None]
    ELSE IF Len(rows[k]) <= sheet_id_ix THEN [exc |-> "IndexError", val |-> None]
    ELSE IF rows[k][sheet_id_ix + 1] = model_id THEN [exc |-> NoExc, val |-> Some(k - 1)]
    ELSE ScanRows(rows, k + 1, sheet_id_ix, model_id)

\* lines 143-147 on the value rows of self.sheet_data
Scanned(rows, scan) == Result(rows.self, scan.exc, scan.val)

ScanCache(rows, sheet_id_ix, model_id) ==
    Scanned(rows, ScanRows(Value(rows.val), 1, sheet_id_ix, model_id))

\* lines 140-147 on the result ix of column_index(sheet_id_field)
ExistingRowAt(ix, model_id, apiOK) ==
    IF ix.exc # NoExc THEN Result(ix.self, ix.exc, None)
    ELSE ScanCache(sheet_data(ix.self, apiOK), Value(ix.val), model_id)

existing_row(self, data, apiOK) ==
    IF model_id_field \notin Keys(data) THEN Result(self, "KeyError", None)
    ELSE ExistingRowAt(column_index(self, sheet_id_field, apiOK),
                       Item(data, model_id_field), apiOK)

\* -------------------------------------------------- SheetPushableMixin
\* line 206: the column a push field is looked up under
HeaderOf(field) == IF field # model_id_field THEN field ELSE sheet_id_field

\* the first loop of upsert_data over data.keys(), from key k on: the
\* (field, column index) pairs of the fields that have a header
RECURSIVE FieldIndexes(_, _, _, _, _)
RECURSIVE FieldIndexesStep(_, _, _, _, _)
FieldIndexesStep(ix, data, k, acc, apiOK) ==
    IF ix.exc = NoExc
    THEN FieldIndexes(ix.self, data, k + 1,
                      Append(acc, << data[k][1], Value(ix.val) >>), apiOK)
    ELSE IF ix.exc = "ValueError"
    THEN FieldIndexes(ix.self, data, k + 1, acc, apiOK)
    ELSE Result(ix.self, ix.exc, acc)

FieldIndexes(self, data, k, acc, apiOK) ==
    IF k > Len(data) THEN Result(self, NoExc, acc)
    ELSE FieldIndexesStep(column_index(self, HeaderOf(data[k][1]), apiOK),
                          data, k, acc, apiOK)

\* the place of the first pair with the least column index
FirstLeast(pairs) ==
    CHOOSE k \in 1..Len(pairs) :
        /\ \A j \in 1..Len(pairs) : pairs[k][2] <= pairs[j][2]
        /\ \A j \in 1..(k - 1) : pairs[j][2] # pairs[k][2]

\* sorted(field_indexes, key=lambda x: x[1]): a stable sort by column index
RECURSIVE Sorted(_)
RECURSIVE SortedFrom(_, _)
SortedFrom(pairs, k) ==
    << pairs[k] >> \o Sorted(SubSeq(pairs, 1, k - 1) \o SubSeq(pairs, k + 1, Len(pairs)))

Sorted(pairs) == IF pairs = <<>> THEN <<>> ELSE SortedFrom(pairs, FirstLeast(pairs))

\* the second loop of upsert_data: the values of the sorted fields
RowData(data, sorted_field_indexes) ==
    [k \in 1..Len(sorted_field_indexes) |-> Item(data, sorted_field_indexes[k][1])]

\* an upsert_data that appends the row before it looks for an existing one
UpsertRow_append_first(existing_row_ix, row_data) ==
    IF existing_row_ix.exc # NoExc /\ existing_row_ix.self.d # None
    THEN Result([existing_row_ix.self EXCEPT !.d = Some(Append(Value(@), row_data))],
                existing_row_ix.exc, None)
    ELSE IF existing_row_ix.exc # NoExc
    THEN Result(existing_row_ix.self, existing_row_ix.exc, None)
    ELSE IF existing_row_ix.val # None
    THEN Result([existing_row_ix.self EXCEPT
                    !.d = Some([Value(@) EXCEPT ![Value(existing_row_ix.val) + 1] = row_data])],
                NoExc, existing_row_ix.val)
    ELSE Result([existing_row_ix.self EXCEPT !.d = Some(Append(Value(@), row_data))],
                NoExc, Some(Len(Value(existing_row_ix.self.d))))

\* lines 220-223
UpsertRow(existing_row_ix, row_data) ==
    IF existing_row_ix.exc # NoExc
    THEN Result(existing_row_ix.self, existing_row_ix.exc, None)
    ELSE IF existing_row_ix.val # None
    THEN Result([existing_row_ix.self EXCEPT
                    !.d = Some([Value(@) EXCEPT ![Value(existing_row_ix.val) + 1] = row_data])],
                NoExc, existing_row_ix.val)
    ELSE Result([existing_row_ix.self EXCEPT !.d = Some(Append(Value(@), row_data))],
                NoExc, Some(Len(Value(existing_row_ix.self.d))))

\* lines 210-223 on the result fi of the first loop
UpsertFields(fi, data, apiOK) ==
    IF fi.exc # NoExc THEN Result(fi.self, fi.exc, None)
    ELSE UpsertRow(existing_row(fi.self, data, apiOK), RowData(data, Sorted(fi.val)))

\* upsert_data(**data); val is the index of the row written
upsert_data(self, data, apiOK) ==
    UpsertFields(FieldIndexes(self, data, 1, <<>>, apiOK), data, apiOK)

\* batchUpdate(...).execute() of writeout: whether the request is carried out
Executes(range, data, apiOK) == apiOK /\ ApiFits(range, data)

\* writeout(range, data): the request as issued and the sheet after it
writeout(sheet, range, data, apiOK) ==
    [request |-> [range |-> range, values |-> data, ok |-> Executes(range, data, apiOK)],
     exc |-> IF Executes(range, data, apiOK) THEN NoExc ELSE "HttpError",
     sheet |-> IF Executes(range, data, apiOK)
               THEN ApiBatchUpdate(sheet, range, data) ELSE sheet]

\* get_sheet_range(sheet_name, f'{cols_start}{r0}:{cols_end}{r1}')
WriteoutRange(r0, r1) ==
    get_sheet_range(sheet_name,
        sheet_range_cols[1] \o str(r0) \o << ":" >> \o sheet_range_cols[2] \o str(r1))

\* {f: getattr(obj, f) for f in get_push_fields()}
PushData(obj) == [k \in 1..Len(push_fields) |-> << push_fields[k], obj[push_fields[k]] >>]

\* a line 160 without its i > 0
PeriodicDue_at_zero == i % batch_size = 0

\* line 160
PeriodicDue == i > 0 /\ i % batch_size = 0

\* lines 161-165
PeriodicRange ==
    WriteoutRange((sheet_range_rows[1] + 1) + i,
                  ((sheet_range_rows[1] + 1) + i) + batch_size)

\* lines 167-169
PeriodicData(rows) ==
    Slice(rows, (sheet_range_rows[1] - 1) + i,
                ((sheet_range_rows[1] - 1) + i) + batch_size)

\* a line 180 that compares with <=
FinalDue_inclusive(n) == last_writeout <= n

\* line 180, n being len(queryset)
FinalDue(n) == last_writeout < n

\* lines 182-184
FinalRange == WriteoutRange(Max(2, last_writeout), sheet_range_rows[2])

\* line 185
FinalData(rows) == SliceFrom(rows, last_writeout)

\* ------------------------------------------------------------ Init
\* the sheet whose configured range, from row rows_start on, holds values
SheetHolding(rows_start, values) ==
    [r \in 1..SheetRows |->
        IF r >= rows_start /\ r < rows_start + Len(values)
        THEN values[r - rows_start + 1] ELSE <<>>]

Called(op, arg, exc, val) == [op |-> op, arg |-> arg, exc |-> exc, val |-> val]

Init ==
    /\ \E rows_start \in 1..MaxRowsStart, values \in Sheets :
          /\ data_range = << "A" >> \o str(rows_start) \o << ":" >> \o max_col
          /\ remote = SheetHolding(rows_start, values)
    /\ batch_size \in 1..MaxBatch
    /\ push_fields \in PushFieldLists
    /\ _sheet_data = None
    /\ _sheet_headers = None
    /\ pc = "idle"
    /\ i = 0
    /\ last_writeout = 0
    /\ touched = {}
    /\ writes = <<>>
    /\ reads = 0
    /\ calls = 0
    /\ ret = Called("__init__", None, NoExc, None)

\* the fields of the object after a call
Becomes(self) ==
    /\ _sheet_data' = self.d
    /\ _sheet_headers' = self.h
    /\ reads' = self.reads

\* the cache is not fetched yet or holds fewer than MaxCached rows
HasRoom == IF _sheet_data = None THEN TRUE ELSE Len(Value(_sheet_data)) < MaxCached

\* -------------------------------------------- calls made by the caller
CanCall == pc = "idle" /\ calls < MaxCalls

Returns(op, arg, res) ==
    /\ Becomes(res.self)
    /\ ret' = Called(op, arg, res.exc, res.val)
    /\ calls' = calls + 1
    /\ UNCHANGED << remote, data_range, batch_size, push_fields, pc, i,
                    last_writeout, touched, writes >>

CallSheetData ==
    /\ CanCall
    /\ \E apiOK \in BOOLEAN :
          Returns("sheet_data", None, sheet_data(Self, apiOK))

CallSheetHeaders ==
    /\ CanCall
    /\ \E apiOK \in BOOLEAN :
          Returns("sheet_headers", None, sheet_headers(Self, apiOK))

CallColumnIndex ==
    /\ CanCall
    /\ \E apiOK \in BOOLEAN, field_name \in {"Name", "Age", sheet_id_field} :
          Returns("column_index", field_name, column_index(Self, field_name, apiOK))

CallExistingRow ==
    /\ CanCall
    /\ \E apiOK \in BOOLEAN, obj \in Objects :
          Returns("existing_row", PushData(obj), existing_row(Self, PushData(obj), apiOK))

CallUpsertData ==
    /\ CanCall
    /\ HasRoom
    /\ \E apiOK \in BOOLEAN, obj \in Objects :
          Returns("upsert_data", PushData(obj), upsert_data(Self, PushData(obj), apiOK))

\* -------------------------------------------------------- upsert_table
\* lines 154-157: the queryset, last_writeout, the bounds of the range
UpsertTable ==
    /\ pc = "idle"
    /\ pc' = "loop"
    /\ i' = 0
    /\ last_writeout' = 0
    /\ touched' = {}
    /\ ret' = Called("upsert_table", None, NoExc, None)
    /\ UNCHANGED << remote, data_range, batch_size, push_fields, _sheet_data,
                    _sheet_headers, writes, reads, calls >>

\* what a flush leaves: the object, the sheet, the requests issued, the exception
Flushed(self, sheet, requests, exc) ==
    [self |-> self, sheet |-> sheet, requests |-> requests, exc |-> exc]

NoFlush(self) == Flushed(self, remote, <<>>, NoExc)

Logged(kind, w) ==
    << [kind |-> kind, at |-> i, range |-> w.request.range,
        values |-> w.request.values, ok |-> w.request.ok] >>

WrittenOut(self, kind, w) == Flushed(self, w.sheet, Logged(kind, w), w.exc)

\* lines 160-174, rows being the value of self.sheet_data
PeriodicFlushOf(rows, apiOK) ==
    IF rows.exc # NoExc THEN Flushed(rows.self, remote, <<>>, rows.exc)
    ELSE WrittenOut(rows.self, "periodic",
                    writeout(remote, PeriodicRange, PeriodicData(Value(rows.val)), apiOK))

PeriodicFlush(self, apiOK) == PeriodicFlushOf(sheet_data(self, apiOK), apiOK)

\* lines 180-185, rows being the value of self.sheet_data
FinalFlushOf(rows, apiOK) ==
    IF rows.exc # NoExc THEN Flushed(rows.self, remote, <<>>, rows.exc)
    ELSE WrittenOut(rows.self, "final",
                    writeout(remote, FinalRange, FinalData(Value(rows.val)), apiOK))

FinalFlush(self, apiOK) == FinalFlushOf(sheet_data(self, apiOK), apiOK)

\* an upsert_table that logs the exception and goes on
Raises_swallowed(exc) ==
    /\ pc' = "loop"
    /\ ret' = Called("upsert_table", None, NoExc, None)

\* an exception leaves upsert_table, which catches none
Raises(exc) ==
    /\ pc' = "raised"
    /\ ret' = Called("upsert_table", None, exc, None)

\* lines 176-177 after the flush fl of this iteration, if one was due
Upserted(fl, up) ==
    /\ Becomes(up.self)
    /\ last_writeout' = IF PeriodicDue THEN i ELSE last_writeout
    /\ IF up.exc # NoExc
       THEN /\ Raises(up.exc)
            /\ UNCHANGED << i, touched >>
       ELSE /\ i' = i + 1
            /\ touched' = touched \cup {Value(up.val)}
            /\ UNCHANGED << pc, ret >>

Iterated(fl, obj, apiOK) ==
    /\ remote' = fl.sheet
    /\ writes' = writes \o fl.requests
    /\ IF fl.exc # NoExc
       THEN /\ Becomes(fl.self)
            /\ Raises(fl.exc)
            /\ UNCHANGED << i, last_writeout, touched >>
       ELSE Upserted(fl, upsert_data(fl.self, PushData(obj), apiOK))

\* one iteration of the loop, lines 159-177, over the next object obj
Iterate ==
    /\ pc = "loop"
    /\ i < MaxRecords
    /\ HasRoom
    /\ \E apiOK \in BOOLEAN, obj \in Objects :
          Iterated(IF PeriodicDue THEN PeriodicFlush(Self, apiOK) ELSE NoFlush(Self),
                   obj, apiOK)
    /\ UNCHANGED << data_range, batch_size, push_fields, calls >>

Finished(fl) ==
    /\ remote' = fl.sheet
    /\ writes' = writes \o fl.requests
    /\ Becomes(fl.self)
    /\ IF fl.exc # NoExc
       THEN Raises(fl.exc)
       ELSE /\ pc' = "done"
            /\ UNCHANGED ret

\* the queryset is exhausted after i objects: lines 179-187
Finish ==
    /\ pc = "loop"
    /\ \E apiOK \in BOOLEAN :
          Finished(IF FinalDue(i) THEN FinalFlush(Self, apiOK) ELSE NoFlush(Self))
    /\ UNCHANGED << data_range, batch_size, push_fields, i, last_writeout,
                    touched, calls >>

Next ==
    \/ CallSheetData
    \/ CallSheetHeaders
    \/ CallColumnIndex
    \/ CallExistingRow
    \/ CallUpsertData
    \/ UpsertTable
    \/ Iterate
    \/ Finish

Spec == Init /\ [][Next]_vars

\* ------------------------------------------- the range properties alone
\* sheet_range_rows and sheet_range_cols are functions of sheet_name and
\* data_range only. SpecRange applies them to the sheet_range of objects
\* configured with the sheet names and the ranges below.
SheetNames ==
    { sheet_name,
      << "D", "B" >>,
      << "m", "y", " ", "d", "a", "t", "a" >>,
      << "Q", "1", ":", "Q", "2" >> }

Columns == { << "A" >>, << "B" >>, << "A", "B" >>, max_col }
RowNumbers == { 1, 2, 10 }

\* the bounds a range <COLS><ROW>:<COLS>[<ROW>] is written from
RangeBounds ==
    [cols_start : Columns, rows_start : RowNumbers,
     cols_end : Columns, rows_end : {None} \cup {Some(n) : n \in RowNumbers}]

\* the range written from the bounds b, 'A2:C10' or 'A2:C'
DataRange(b) ==
    b.cols_start \o str(b.rows_start) \o << ":" >> \o b.cols_end
        \o (IF b.rows_end = None THEN <<>> ELSE str(Value(b.rows_end)))

Configured(name, b) ==
    [sheet_name |-> name, bounds |-> b,
     sheet_range |-> get_sheet_range(name, DataRange(b))]

RangeInit ==
    /\ \E name \in SheetNames, b \in RangeBounds :
          /\ data_range = DataRange(b)
          /\ ret = Called("__init__", Configured(name, b), NoExc, None)
    /\ remote = SheetHolding(1, <<>>)
    /\ batch_size = 1
    /\ push_fields = << "id", "Name" >>
    /\ _sheet_data = None
    /\ _sheet_headers = None
    /\ pc = "idle"
    /\ i = 0
    /\ last_writeout = 0
    /\ touched = {}
    /\ writes = <<>>
    /\ reads = 0
    /\ calls = 0

RangeReturns(op, res) ==
    /\ ret' = Called(op, ret.arg, res.exc, res.val)
    /\ UNCHANGED << remote, data_range, batch_size, push_fields, _sheet_data,
                    _sheet_headers, pc, i, last_writeout, touched, writes,
                    reads, calls >>

CallSheetRangeRows ==
    /\ pc = "idle"
    /\ RangeReturns("sheet_range_rows", RangeRows(ret.arg.sheet_range))

CallSheetRangeCols ==
    /\ pc = "idle"
    /\ RangeReturns("sheet_range_cols", RangeCols(ret.arg.sheet_range))

RangeNext ==
    \/ CallSheetRangeRows
    \/ CallSheetRangeCols

SpecRange == RangeInit /\ [][RangeNext]_vars

\* ================================================================ claims
\* the cache and the header row, once fetched
Cached == _sheet_data # None /\ _sheet_headers # None
Rows == Value(_sheet_data)
Headers == Value(_sheet_headers)
HeaderRow == sheet_range_rows[1]

\* the row upsert_data builds from data under the header row headers
FreshRow(headers, data) ==
    RowData(data, Sorted(SelectSeq(
        [k \in 1..Len(data) |-> << data[k][1], ListIndex(headers, HeaderOf(data[k][1])) >>],
        LAMBDA pair : pair[2] >= 0)))

\* the rows of the cache whose hidden-ID cell is id
Matching(rows, headers, id) ==
    {k \in 1..Len(rows) :
        /\ Len(rows[k]) > ListIndex(headers, sheet_id_field)
        /\ rows[k][ListIndex(headers, sheet_id_field) + 1] = id}

FirstOf(S) == CHOOSE k \in S : \A j \in S : k <= j

\* the cells of row are the first cells of the sheet's row r
PresentAt(sheet, r, row) ==
    /\ r \in 1..SheetRows
    /\ Len(sheet[r]) >= Len(row)
    /\ SubSeq(sheet[r], 1, Len(row)) = row

\* a step in which the caller's upsert_data(**ret'.arg) is applied to a fetched
\* snapshot whose header holds the hidden-ID column, on data that holds the id
UpsertDataCall ==
    /\ pc = "idle"
    /\ calls' = calls + 1
    /\ ret'.op = "upsert_data"
    /\ Cached
    /\ ListIndex(Headers, sheet_id_field) >= 0
    /\ model_id_field \in Keys(ret'.arg)

\* C1: when upsert_table has completed without error, every row of the cache
\* the run upserted (cache index k) is in the remote sheet at the sheet row of
\* its index, header row + 1 + k.
C1_RemoteMirrorsCache ==
    pc = "done" =>
        \A k \in touched : PresentAt(remote, HeaderRow + 1 + k, Rows[k + 1])

\* C2: upsert_data leaves the number of cached rows as it is when some cached
\* row's hidden-ID cell is the record's identifier, and appends one row at the
\* end when none is.
C2_RowCountDelta ==
    [][UpsertDataCall =>
          IF Matching(Rows, Headers, Item(ret'.arg, model_id_field)) # {}
          THEN Len(Rows') = Len(Rows)
          ELSE /\ Len(Rows') = Len(Rows) + 1
               /\ SubSeq(Rows', 1, Len(Rows)) = Rows]_vars

\* C3: upsert_data on a record whose identifier is in the cache makes the first
\* matching row the freshly computed row and leaves every other row, the order
\* of the rows and the header row as they were.
C3_OverwriteInPlace ==
    [][(UpsertDataCall /\ Matching(Rows, Headers, Item(ret'.arg, model_id_field)) # {}) =>
          /\ Rows' = [Rows EXCEPT
                        ![FirstOf(Matching(Rows, Headers, Item(ret'.arg, model_id_field)))]
                            = FreshRow(Headers, ret'.arg)]
          /\ _sheet_headers' = _sheet_headers]_vars

\* ceil(n / b)
CeilDiv(n, b) == (n + b - 1) \div b

\* C4: a run of upsert_table over n records that meets no error issues exactly
\* ceil(n / batch_size) flushes: the k-th is the periodic flush at index
\* k * batch_size, and the last one is the final flush, issued when n > 0.
C4_FlushCount ==
    pc = "done" =>
        /\ Len(writes) = CeilDiv(i, batch_size)
        /\ \A k \in 1..Len(writes) :
              IF k < Len(writes)
              THEN writes[k].kind = "periodic" /\ writes[k].at = k * batch_size
              ELSE writes[k].kind = "final" /\ writes[k].at = i /\ i > 0

C4_Witness ==
    /\ pc = "done"
    /\ i = 5
    /\ batch_size = 2
    /\ Len(writes) = 3
    /\ writes[1].kind = "periodic"
    /\ writes[2].at = 4

\* the run so far has pushed i new records into a sheet that held only the
\* header: each was appended, at indexes 0 .. i - 1 of a cache of i rows
NewRecordsOnly ==
    /\ pc \in {"loop", "done"}
    /\ calls = 0
    /\ i > 0
    /\ touched = 0..(i - 1)
    /\ Len(Rows) = i

RECURSIVE PayloadRows(_, _)
PayloadRows(log, k) ==
    IF k > Len(log) THEN 0 ELSE Len(log[k].values) + PayloadRows(log, k + 1)

\* C5: when n new records are pushed into a sheet that holds only the header,
\* every periodic flush carries batch_size rows, and the payloads of all the
\* flushes of a completed run add up to n rows.
C5_PayloadSizes ==
    NewRecordsOnly =>
        /\ \A k \in 1..Len(writes) :
              writes[k].kind = "periodic" => Len(writes[k].values) = batch_size
        /\ pc = "done" => PayloadRows(writes, 1) = i

\* a step in which column_index is called again with the field name of the
\* call before it, which returned an index
ColumnIndexAgain ==
    /\ ret.op = "column_index"
    /\ ret.exc = NoExc
    /\ calls' = calls + 1
    /\ ret'.op = "column_index"
    /\ ret'.arg = ret.arg

\* C6: in one session at most one remote read of the sheet is answered; after
\* it no call reads again, and column_index called again with the same field
\* name returns the same index.
C6_OneFetch ==
    /\ [](reads <= 1)
    /\ [][reads = 1 => reads' = 1]_vars
    /\ [][ColumnIndexAgain => (ret' = ret /\ reads' = reads)]_vars

C6_Witness ==
    /\ calls >= 2
    /\ reads = 1
    /\ pc = "done"
    /\ Len(writes) > 0

\* C7: a push field whose column name is not in the header row is left out of
\* the row upsert_data builds, and the call completes without raising: the
\* record is upserted with its other fields.
C7_MissingHeaderSkipped ==
    [][(UpsertDataCall /\ \E f \in Keys(ret'.arg) : ListIndex(Headers, HeaderOf(f)) < 0) =>
          /\ ret'.exc = NoExc
          /\ Rows'[Value(ret'.val) + 1] = FreshRow(Headers, ret'.arg)
          /\ Len(FreshRow(Headers, ret'.arg))
                = Cardinality({f \in Keys(ret'.arg) : ListIndex(Headers, HeaderOf(f)) >= 0})]_vars

\* C8: no flush of upsert_table reaches the header row: the range of every
\* flush starts below the header row, the first row of the configured range.
C8_HeaderNeverOverwritten ==
    \A k \in 1..Len(writes) : FirstRow(writes[k].range) > HeaderRow

\* a step in which a flush of upsert_table fails
WriteFails ==
    /\ Len(writes') = Len(writes) + 1
    /\ ~writes'[Len(writes')].ok

\* C9: a flush that fails ends the run: the error reaches the caller, no record
\* is upserted and no request is issued after it, and the remote sheet keeps
\* what the flushes before it wrote.
C9_WriteFailureAborts ==
    /\ [][WriteFails =>
            /\ pc' = "raised"
            /\ ret'.exc = "HttpError"
            /\ remote' = remote
            /\ _sheet_data' = _sheet_data
            /\ i' = i /\ touched' = touched]_vars
    /\ [](\A k \in 1..Len(writes) : ~writes[k].ok => (k = Len(writes) /\ pc = "raised"))

C9_Witness ==
    /\ pc = "raised"
    /\ Len(writes) = 2
    /\ writes[1].ok
    /\ ~writes[2].ok
    /\ writes[1].values # <<>>
    /\ PresentAt(remote, FirstRow(writes[1].range), writes[1].values[1])

\* C10: when the remote sheet has no rows, every call of sheet_headers or
\* sheet_data fails (the IndexError of line 69, or the error of the read
\* itself); none returns a value.
C10_EmptySheetAlwaysFails ==
    (pc = "idle" /\ ApiGetValues = <<>> /\ ret.op \in {"sheet_data", "sheet_headers"})
        => ret.exc \in {"IndexError", "HttpError"}

\* C11: existing_row on a fetched snapshot whose header holds the hidden-ID
\* column, for data that holds the identifier, never fails, also when cached
\* rows are shorter than the header: it returns the index of the first row
\* whose hidden-ID cell is the identifier, or None when no row has it.
C11_ExistingRowTotal ==
    (/\ ret.op = "existing_row"
     /\ Cached
     /\ ListIndex(Headers, sheet_id_field) >= 0
     /\ model_id_field \in Keys(ret.arg)) =>
        /\ ret.exc = NoExc
        /\ ret.val = IF Matching(Rows, Headers, Item(ret.arg, model_id_field)) = {}
                     THEN None
                     ELSE Some(FirstOf(Matching(Rows, Headers,
                                                Item(ret.arg, model_id_field))) - 1)

\* C12: for every sheet name and every range <COLS><ROW>:<COLS>[<ROW>],
\* sheet_range_rows of the combined string "<sheet name>!<range>" is the
\* range's own first row and last row, max_rows when the range names no last
\* row, and sheet_range_cols is its own first and last column: neither depends
\* on the sheet name.
C12_RangeRoundTrip ==
    /\ ret.op = "sheet_range_rows" =>
          /\ ret.exc = NoExc
          /\ ret.val = Some(<< ret.arg.bounds.rows_start,
                               IF ret.arg.bounds.rows_end = None THEN max_rows
                               ELSE Value(ret.arg.bounds.rows_end) >>)
    /\ ret.op = "sheet_range_cols" =>
          /\ ret.exc = NoExc
          /\ ret.val = Some(<< ret.arg.bounds.cols_start, ret.arg.bounds.cols_end >>)

\* a step in which upsert_table issues a flush of the given kind
Flush(kind) ==
    /\ Len(writes') = Len(writes) + 1
    /\ writes'[Len(writes')].kind = kind

\* the index of the cache row whose place in the sheet is row r: the data rows
\* follow the header row
CacheIndexAt(r) == r - (HeaderRow + 1)

\* C13: in every periodic flush the payload is a run of cache rows that starts
\* with the cache row whose place in the sheet is the first row of the
\* destination range, rows_start + 1 + i, whatever the first row of the
\* configured range.
C13_PeriodicPayloadAligned ==
    [][Flush("periodic") =>
          /\ FirstRow(writes'[Len(writes')].range) = HeaderRow + 1 + i
          /\ writes'[Len(writes')].values
                = Slice(Rows, CacheIndexAt(FirstRow(writes'[Len(writes')].range)),
                        CacheIndexAt(FirstRow(writes'[Len(writes')].range))
                            + Len(writes'[Len(writes')].values))
          /\ CacheIndexAt(FirstRow(writes'[Len(writes')].range)) < Len(Rows)
                => writes'[Len(writes')].values # <<>>]_vars

\* C14: the payload of the final flush is the cache from index last_writeout
\* on, and its first row goes to the sheet row of that index, header row + 1 +
\* last_writeout, when last_writeout is 0 and when it is greater.
C14_FinalFlushAligned ==
    [][Flush("final") =>
          /\ writes'[Len(writes')].values = SliceFrom(Rows, last_writeout)
          /\ FirstRow(writes'[Len(writes')].range) = HeaderRow + 1 + last_writeout]_vars

\* C15: the destination range of every periodic flush names exactly batch_size
\* rows, rows_start + 1 + i up to but not including rows_start + 1 + i +
\* batch_size: no row at or beyond rows_start + 1 + i + batch_size.
C15_PeriodicRangeSize ==
    \A k \in 1..Len(writes) :
        writes[k].kind = "periodic" =>
            /\ FirstRow(writes[k].range) = HeaderRow + 1 + writes[k].at
            /\ LastRow(writes[k].range) < HeaderRow + 1 + writes[k].at + batch_size
            /\ LastRow(writes[k].range) - FirstRow(writes[k].range) + 1 = batch_size

\* every row has one cell per column of the header row
Aligned(rows, headers) == \A k \in 1..Len(rows) : Len(rows[k]) = Len(headers)

\* C16: upsert_data keeps the cache aligned with the header row: applied to a
\* cache whose rows have one cell per header column, it leaves every row with
\* one cell per header column, and in the row it wrote the value of each push
\* field that has a header is at the column index of that header; so also when
\* the header has columns that are not pushed or a push field has no header.
C16_ColumnAlignment ==
    [][(UpsertDataCall /\ Aligned(Rows, Headers) /\ ret'.exc = NoExc) =>
          /\ Aligned(Rows', Headers)
          /\ \A f \in Keys(ret'.arg) :
                ListIndex(Headers, HeaderOf(f)) >= 0 =>
                    Rows'[Value(ret'.val) + 1][ListIndex(Headers, HeaderOf(f)) + 1]
                        = Item(ret'.arg, f)]_vars

\* the identifiers of the records
Ids == { obj[model_id_field] : obj \in Objects }

\* the row holds the identifier id in one of its cells
BelongsTo(row, id) == \E c \in 1..Len(row) : row[c] = id

\* C17: the sheets of this model hold no two rows with the same hidden-ID
\* value when fetched; after any sequence of upsert_data calls, with the same
\* record pushed more than once or not, no two rows of the cache belong to
\* the same record identifier.
C17_IdentifiersUnique ==
    Cached =>
        \A j, k \in 1..Len(Rows) :
            j # k => \A id \in Ids : ~(BelongsTo(Rows[j], id) /\ BelongsTo(Rows[k], id))

\* a step in which upsert_data, called by the caller or by upsert_table, raises
\* because the header row lacks the hidden-ID column (the ValueError of line
\* 140) or the data lack the model id field (the KeyError of line 139)
UpsertDataRaises ==
    /\ \/ pc = "idle" /\ calls' = calls + 1 /\ ret'.op = "upsert_data"
       \/ pc = "loop" /\ pc' = "raised"
    /\ ret'.exc \in {"ValueError", "KeyError"}

\* C18: an upsert_data that raises because the header row lacks the hidden-ID
\* column or the data lack the model id field changes nothing: the cached
\* rows and the header row are those from before the call (those just
\* fetched, when the call is the first to read the sheet), and the remote
\* sheet is untouched.
C18_UpsertAtomicOnError ==
    [][UpsertDataRaises =>
          /\ IF Cached
             THEN _sheet_data' = _sheet_data /\ _sheet_headers' = _sheet_headers
             ELSE /\ _sheet_data' = Some(Tail(ApiGetValues))
                  /\ _sheet_headers' = Some(Head(ApiGetValues))
          /\ remote' = remote
          /\ Len(writes') = Len(writes)]_vars

C18_Witness ==
    /\ ret.op = "upsert_data"
    /\ ret.exc = "ValueError"
    /\ calls = 2
    /\ Cached
    /\ Len(Rows) = 1
    /\ ListIndex(Headers, sheet_id_field) < 0

\* a completed run of upsert_table alone (no other call before it) over i
\* records, 1 <= i <= batch_size, on a range whose first row is row 1
SingleBatchRun ==
    /\ pc = "done"
    /\ calls = 0
    /\ HeaderRow = 1
    /\ i >= 1
    /\ i <= batch_size

\* C19: a run over n records, 1 <= n <= batch_size, on a range that starts at
\* row 1 issues exactly one flush; it is issued after all n records were
\* upserted, its destination starts at sheet row 2 and its payload is the
\* entire cache, so that the data rows of the remote sheet, from row 2 on,
\* are the rows of the cache.
C19_SingleBatch ==
    SingleBatchRun =>
        /\ Len(writes) = 1
        /\ writes[1].kind = "final"
        /\ writes[1].at = i
        /\ FirstRow(writes[1].range) = 2
        /\ writes[1].values = Rows
        /\ ValuesFrom(remote, 2, SheetRows) = Rows

\* the object and the remote sheet stay as they are, and no request is made
NothingRead ==
    /\ reads' = reads
    /\ writes' = writes
    /\ remote' = remote
    /\ _sheet_data' = _sheet_data
    /\ _sheet_headers' = _sheet_headers

\* C20: upsert_table over an empty queryset makes no request, neither a write
\* nor a read, and leaves the snapshot as it is: neither reading the bounds of
\* the range at the start of the run nor ending the run with no record
\* upserted touches the remote sheet or the cache, so a session that does
\* nothing else ends with the snapshot unfetched.
C20_EmptyRun ==
    /\ [][(pc = "idle" /\ pc' = "loop") => NothingRead]_vars
    /\ [][(pc = "loop" /\ i = 0 /\ pc' = "done") => NothingRead]_vars
    /\ []((pc = "done" /\ i = 0 /\ calls = 0) =>
            /\ reads = 0
            /\ writes = <<>>
            /\ _sheet_data = None
            /\ _sheet_headers = None)

C20_Witness ==
    /\ pc = "done"
    /\ i = 0
    /\ calls = 0
    /\ reads = 0
    /\ writes = <<>>
    /\ _sheet_data = None
    /\ Len(ApiGetValues) = 2

====
